---- MODULE Spec2Model ----
(***************************************************************************)
(* A model of src/app.py: an HTTP service over three in-memory tables      *)
(* (users, categories, records) and a registry of id counters.  Every      *)
(* request handler is one action; a handler is an operator from the        *)
(* database and the request to the new database and the response.          *)
(***************************************************************************)
EXTENDS Integers, Sequences, FiniteSets, TLC

VARIABLES
    _users,       \* dict id -> {id, name}, in insertion order
    _categories,  \* dict id -> {id, name}, in insertion order
    _records,     \* dict id -> {id, user_id, category_id, created_at, amount}
    _counters,    \* {"user": n, "category": n, "record": n}
    req,          \* the request handled last
    resp,         \* its response: status and JSON body
    issued,       \* history: per kind, the ids returned by successful creates
    pc,           \* per thread: the statement a handler running on it is at
    loc,          \* per thread: the handler's local variables
    deleted       \* history: a handler run by a thread has deleted something

vars ==
    <<_users, _categories, _records, _counters, req, resp, issued,
      pc, loc, deleted>>

\* The number of id allocations a run may make (over the three kinds).
MaxOps == 4

\* The number of threads that serve requests at the same time.
NumThreads == 2

----------------------------------------------------------------------------
(* JSON values as Python sees them.  t is the Python type, v the value of  *)
(* an int or bool (True is 1), or the value of a float in tenths, s the    *)
(* characters of a str.  "bigint" is an int above the range of a float.    *)

JN(t, v) == [t |-> t, v |-> v, s |-> <<>>]
JS(s) == [t |-> "str", v |-> 0, s |-> s]
JInt(n) == JN("int", n)
JFloat(tenths) == JN("float", tenths)
JTrue == JN("bool", 1)
JBig == JN("bigint", 0)
\* dict.get on an absent key and on a JSON null both give None
None == JN("none", 0)

\* isinstance(x, int): bool is a subclass of int
isinstance_int(x) == x.t \in {"int", "bool", "bigint"}

\* isinstance(x, (int, float))
isinstance_number(x) == x.t \in {"int", "bool", "bigint", "float"}

isinstance_str(x) == x.t = "str"

\* Python truthiness: bool(x)
Truthy(x) ==
    CASE x.t = "none" -> FALSE
      [] x.t = "str" -> x.s # <<>>
      [] x.t = "bigint" -> TRUE
      [] OTHER -> x.v # 0

\* the numeric value of an int, bool or float, in tenths
Num(x) == IF x.t = "float" THEN x.v ELSE x.v * 10

\* Python ==, which also decides dict membership: True == 1 == 1.0
PyEq(x, y) ==
    CASE x.t = "str" /\ y.t = "str" -> x.s = y.s
      [] x.t = "none" \/ y.t = "none" -> x.t = y.t
      [] x.t = "str" \/ y.t = "str" -> FALSE
      [] x.t = "bigint" \/ y.t = "bigint" -> x.t = y.t
      [] OTHER -> Num(x) = Num(y)

\* float(x) of a number that fits; float(10**400) raises OverflowError
float_raises(x) == x.t = "bigint"
float(x) == JFloat(Num(x))

\* str.lower(), character by character
LowerChar(c) ==
    CASE c = "A" -> "a"
      [] c = "B" -> "b"
      [] OTHER -> c
lower(s) == [i \in DOMAIN s |-> LowerChar(s[i])]

\* str.replace("Z", "+00:00") on a timestamp given as its lexical parts
replace_Z(s) == [i \in DOMAIN s |-> IF s[i] = "Z" THEN "+00:00" ELSE s[i]]

\* datetime.fromisoformat accepts: date, date time, date time offset
IsDate(tok) == tok \in {"2025-10-13", "today"}
IsTime(tok) == tok \in {"T10:00:00", "Tnow"}
fromisoformat_ok(s) ==
    \/ Len(s) = 1 /\ IsDate(s[1])
    \/ Len(s) = 2 /\ IsDate(s[1]) /\ IsTime(s[2])
    \/ Len(s) = 3 /\ IsDate(s[1]) /\ IsTime(s[2]) /\ s[3] = "+00:00"

\* datetime.utcnow().isoformat()
utcnow_isoformat == <<"today", "Tnow">>

----------------------------------------------------------------------------
(* Python dicts keep insertion order: a sequence of entries [k, v] with    *)
(* distinct keys.                                                          *)

DictHas(d, x) == \E i \in DOMAIN d : PyEq(JInt(d[i].k), x)
DictGet(d, x) == d[CHOOSE i \in DOMAIN d : PyEq(JInt(d[i].k), x)].v
DictSet(d, k, val) ==
    IF \E i \in DOMAIN d : d[i].k = k
    THEN [i \in DOMAIN d |-> IF d[i].k = k THEN [k |-> k, v |-> val] ELSE d[i]]
    ELSE Append(d, [k |-> k, v |-> val])
DictPop(d, x) == SelectSeq(d, LAMBDA e : ~PyEq(JInt(e.k), x))
DictValues(d) == [i \in DOMAIN d |-> d[i].v]

\* the database a handler reads and writes
DB ==
    [users |-> _users, categories |-> _categories,
     records |-> _records, counters |-> _counters]

\* a handler's outcome
Out(db, status, body) == [db |-> db, status |-> status, body |-> body]

_error(db, message, status) == Out(db, status, [error |-> message])

\* an exception no handler catches: Flask answers 500
Unhandled(db) == Out(db, 500, [error |-> "Internal Server Error"])

\* a variant that returns the next id without saving the counter
_next_id_unsaved(counters, kind) ==
    [counters |-> counters, id |-> counters[kind] + 1]

\* _counters[kind] += 1; return _counters[kind]
_next_id(counters, kind) ==
    LET c == [counters EXCEPT ![kind] = @ + 1]
    IN  [counters |-> c, id |-> c[kind]]

\* request.get_json(silent=True) or {} followed by data.get: a body that is
\* no JSON, or a falsy JSON value, reads as {}; a truthy JSON value that is
\* not an object has no .get
get_raises(body) == body.kind = "nondict"

\* request.args.get(name, type=int): None when absent or not an int
args_get_int(q) == IF q.kind = "int" THEN JInt(q.v) ELSE None

----------------------------------------------------------------------------
(* Handlers *)

health(db) == Out(db, 200, [status |-> "ok"])

index(db) == Out(db, 200, [message |-> "Lab2 Expenses API"])

get_user(db, user_id) ==
    IF ~DictHas(db.users, JInt(user_id))
    THEN _error(db, "user not found", 404)
    ELSE Out(db, 200, DictGet(db.users, JInt(user_id)))

\* a variant that counts the user's records and leaves them stored
delete_user_keeps_records(db, user_id) ==
    IF ~DictHas(db.users, JInt(user_id))
    THEN _error(db, "user not found", 404)
    ELSE
        LET to_delete == SelectSeq(db.records,
                LAMBDA e : PyEq(e.v.user_id, JInt(user_id)))
        IN  Out([db EXCEPT !.users = DictPop(db.users, JInt(user_id))],
                200,
                [status |-> "deleted", user_id |-> user_id,
                 deleted_records |-> Len(to_delete)])

delete_user(db, user_id) ==
    IF ~DictHas(db.users, JInt(user_id))
    THEN _error(db, "user not found", 404)
    ELSE
        LET to_delete == SelectSeq(db.records,
                LAMBDA e : PyEq(e.v.user_id, JInt(user_id)))
            recs == SelectSeq(db.records,
                LAMBDA e : \A j \in DOMAIN to_delete : to_delete[j].k # e.k)
        IN  Out([db EXCEPT !.records = recs,
                           !.users = DictPop(db.users, JInt(user_id))],
                200,
                [status |-> "deleted", user_id |-> user_id,
                 deleted_records |-> Len(to_delete)])

\* a variant that tests the type of name only
create_user_accepts_empty(db, body) ==
    IF get_raises(body) THEN Unhandled(db)
    ELSE
        LET name == body.f.name IN
        IF ~isinstance_str(name)
        THEN _error(db, "field 'name' (string) is required", 400)
        ELSE
            LET a == _next_id(db.counters, "user")
                user == [id |-> a.id, name |-> name.s]
            IN  Out([db EXCEPT !.counters = a.counters,
                               !.users = DictSet(db.users, a.id, user)],
                    201, user)

create_user(db, body) ==
    IF get_raises(body) THEN Unhandled(db)
    ELSE
        LET name == body.f.name IN
        IF ~Truthy(name) \/ ~isinstance_str(name)
        THEN _error(db, "field 'name' (string) is required", 400)
        ELSE
            LET a == _next_id(db.counters, "user")
                user == [id |-> a.id, name |-> name.s]
            IN  Out([db EXCEPT !.counters = a.counters,
                               !.users = DictSet(db.users, a.id, user)],
                    201, user)

list_users(db) ==
    Out(db, 200, [items |-> DictValues(db.users), total |-> Len(db.users)])

list_categories(db) ==
    Out(db, 200,
        [items |-> DictValues(db.categories), total |-> Len(db.categories)])

\* a variant that compares the names as written
name_exists_exact(categories, name) ==
    \E i \in DOMAIN categories : categories[i].v.name = name

\* any(c["name"].lower() == name.lower() for c in _categories.values())
name_exists(categories, name) ==
    \E i \in DOMAIN categories : lower(categories[i].v.name) = lower(name)

\* a variant that stores the name lowercased
create_category_lowercased(db, body) ==
    IF get_raises(body) THEN Unhandled(db)
    ELSE
        LET name == body.f.name IN
        IF ~Truthy(name) \/ ~isinstance_str(name)
        THEN _error(db, "field 'name' (string) is required", 400)
        ELSE IF name_exists(db.categories, name.s)
        THEN _error(db, "category with this name already exists", 409)
        ELSE
            LET a == _next_id(db.counters, "category")
                category == [id |-> a.id, name |-> lower(name.s)]
            IN  Out([db EXCEPT !.counters = a.counters,
                               !.categories = DictSet(db.categories, a.id, category)],
                    201, category)

create_category(db, body) ==
    IF get_raises(body) THEN Unhandled(db)
    ELSE
        LET name == body.f.name IN
        IF ~Truthy(name) \/ ~isinstance_str(name)
        THEN _error(db, "field 'name' (string) is required", 400)
        ELSE IF name_exists(db.categories, name.s)
        THEN _error(db, "category with this name already exists", 409)
        ELSE
            LET a == _next_id(db.counters, "category")
                category == [id |-> a.id, name |-> name.s]
            IN  Out([db EXCEPT !.counters = a.counters,
                               !.categories = DictSet(db.categories, a.id, category)],
                    201, category)

\* a variant that deletes the records and leaves the category stored
delete_category_keeps_category(db, q, body) ==
    LET from_query == args_get_int(q) IN
    IF from_query.t = "none" /\ get_raises(body) THEN Unhandled(db)
    ELSE
        LET cat_id == IF from_query.t = "none" THEN body.f.id ELSE from_query IN
        IF ~isinstance_int(cat_id)
        THEN _error(db, "category id is required", 400)
        ELSE IF ~DictHas(db.categories, cat_id)
        THEN _error(db, "category not found", 404)
        ELSE
            LET to_delete == SelectSeq(db.records,
                    LAMBDA e : PyEq(e.v.category_id, cat_id))
                recs == SelectSeq(db.records,
                    LAMBDA e : \A j \in DOMAIN to_delete : to_delete[j].k # e.k)
            IN  Out([db EXCEPT !.records = recs],
                    200,
                    [status |-> "deleted", category_id |-> cat_id,
                     deleted_records |-> Len(to_delete)])

\* a variant that picks the records to delete by their user_id
delete_category_by_user(db, q, body) ==
    LET from_query == args_get_int(q) IN
    IF from_query.t = "none" /\ get_raises(body) THEN Unhandled(db)
    ELSE
        LET cat_id == IF from_query.t = "none" THEN body.f.id ELSE from_query IN
        IF ~isinstance_int(cat_id)
        THEN _error(db, "category id is required", 400)
        ELSE IF ~DictHas(db.categories, cat_id)
        THEN _error(db, "category not found", 404)
        ELSE
            LET to_delete == SelectSeq(db.records,
                    LAMBDA e : PyEq(e.v.user_id, cat_id))
                recs == SelectSeq(db.records,
                    LAMBDA e : \A j \in DOMAIN to_delete : to_delete[j].k # e.k)
            IN  Out([db EXCEPT !.records = recs,
                               !.categories = DictPop(db.categories, cat_id)],
                    200,
                    [status |-> "deleted", category_id |-> cat_id,
                     deleted_records |-> Len(to_delete)])

\* a variant that deletes the category's records and reports the number of
\* all records stored
delete_category_counts_all(db, q, body) ==
    LET from_query == args_get_int(q) IN
    IF from_query.t = "none" /\ get_raises(body) THEN Unhandled(db)
    ELSE
        LET cat_id == IF from_query.t = "none" THEN body.f.id ELSE from_query IN
        IF ~isinstance_int(cat_id)
        THEN _error(db, "category id is required", 400)
        ELSE IF ~DictHas(db.categories, cat_id)
        THEN _error(db, "category not found", 404)
        ELSE
            LET recs == SelectSeq(db.records,
                    LAMBDA e : ~PyEq(e.v.category_id, cat_id))
            IN  Out([db EXCEPT !.records = recs,
                               !.categories = DictPop(db.categories, cat_id)],
                    200,
                    [status |-> "deleted", category_id |-> cat_id,
                     deleted_records |-> Len(db.records)])

delete_category(db, q, body) ==
    LET from_query == args_get_int(q) IN
    IF from_query.t = "none" /\ get_raises(body) THEN Unhandled(db)
    ELSE
        LET cat_id == IF from_query.t = "none" THEN body.f.id ELSE from_query IN
        IF ~isinstance_int(cat_id)
        THEN _error(db, "category id is required", 400)
        ELSE IF ~DictHas(db.categories, cat_id)
        THEN _error(db, "category not found", 404)
        ELSE
            LET to_delete == SelectSeq(db.records,
                    LAMBDA e : PyEq(e.v.category_id, cat_id))
                recs == SelectSeq(db.records,
                    LAMBDA e : \A j \in DOMAIN to_delete : to_delete[j].k # e.k)
            IN  Out([db EXCEPT !.records = recs,
                               !.categories = DictPop(db.categories, cat_id)],
                    200,
                    [status |-> "deleted", category_id |-> cat_id,
                     deleted_records |-> Len(to_delete)])

get_record(db, record_id) ==
    IF ~DictHas(db.records, JInt(record_id))
    THEN _error(db, "record not found", 404)
    ELSE Out(db, 200, DictGet(db.records, JInt(record_id)))

\* a variant that answers 200 whether or not the record is stored
delete_record_idempotent(db, record_id) ==
    Out([db EXCEPT !.records = DictPop(db.records, JInt(record_id))],
        200, [status |-> "deleted", record_id |-> record_id])

delete_record(db, record_id) ==
    IF ~DictHas(db.records, JInt(record_id))
    THEN _error(db, "record not found", 404)
    ELSE Out([db EXCEPT !.records = DictPop(db.records, JInt(record_id))],
             200, [status |-> "deleted", record_id |-> record_id])

\* the checks of create_record, in the order the handler makes them: the
\* first that fails decides the error; status 0 when none fails
NoError == [message |-> "", status |-> 0]
Err(message, status) == [message |-> message, status |-> status]
\* a variant that looks up the user and not the category
record_error_user_only(db, f) ==
    IF ~isinstance_int(f.user_id)
    THEN Err("field 'user_id' (int) is required", 400)
    ELSE IF ~isinstance_int(f.category_id)
    THEN Err("field 'category_id' (int) is required", 400)
    ELSE IF ~isinstance_number(f.amount)
    THEN Err("field 'amount' (number) is required", 400)
    ELSE IF ~DictHas(db.users, f.user_id)
    THEN Err("user not found", 404)
    ELSE IF f.created_at.t # "none"
            /\ (~isinstance_str(f.created_at)
                \/ ~fromisoformat_ok(replace_Z(f.created_at.s)))
    THEN Err("field 'created_at' must be ISO8601 string", 400)
    ELSE NoError

record_error(db, f) ==
    IF ~isinstance_int(f.user_id)
    THEN Err("field 'user_id' (int) is required", 400)
    ELSE IF ~isinstance_int(f.category_id)
    THEN Err("field 'category_id' (int) is required", 400)
    ELSE IF ~isinstance_number(f.amount)
    THEN Err("field 'amount' (number) is required", 400)
    ELSE IF ~DictHas(db.users, f.user_id)
    THEN Err("user not found", 404)
    ELSE IF ~DictHas(db.categories, f.category_id)
    THEN Err("category not found", 404)
    ELSE IF f.created_at.t # "none"
            /\ (~isinstance_str(f.created_at)
                \/ ~fromisoformat_ok(replace_Z(f.created_at.s)))
    THEN Err("field 'created_at' must be ISO8601 string", 400)
    ELSE NoError

\* a variant that stores created_at as it was parsed, Z replaced
record_store_normalized(db, f) ==
    LET created_at == IF f.created_at.t = "none"
                      THEN utcnow_isoformat \o <<"Z">>
                      ELSE replace_Z(f.created_at.s)
        a == _next_id(db.counters, "record")
    IN
    IF float_raises(f.amount)
    THEN Unhandled([db EXCEPT !.counters = a.counters])
    ELSE
        LET rec == [id |-> a.id, user_id |-> f.user_id,
                    category_id |-> f.category_id,
                    created_at |-> created_at,
                    amount |-> float(f.amount)]
        IN  Out([db EXCEPT !.counters = a.counters,
                           !.records = DictSet(db.records, a.id, rec)],
                201, rec)

\* the id is taken before float(amount) is evaluated: an amount float()
\* rejects leaves the counter advanced and no record stored
record_store(db, f) ==
    LET created_at == IF f.created_at.t = "none"
                      THEN utcnow_isoformat \o <<"Z">>
                      ELSE f.created_at.s
        a == _next_id(db.counters, "record")
    IN
    IF float_raises(f.amount)
    THEN Unhandled([db EXCEPT !.counters = a.counters])
    ELSE
        LET rec == [id |-> a.id, user_id |-> f.user_id,
                    category_id |-> f.category_id,
                    created_at |-> created_at,
                    amount |-> float(f.amount)]
        IN  Out([db EXCEPT !.counters = a.counters,
                           !.records = DictSet(db.records, a.id, rec)],
                201, rec)

\* a variant that takes the id before it checks the body
create_record_eager(db, body) ==
    IF get_raises(body) THEN Unhandled(db)
    ELSE
        LET e == record_error(db, body.f)
            a == _next_id(db.counters, "record")
        IN
        IF e.status # 0
        THEN _error([db EXCEPT !.counters = a.counters], e.message, e.status)
        ELSE record_store(db, body.f)

create_record(db, body) ==
    IF get_raises(body) THEN Unhandled(db)
    ELSE
        LET e == record_error(db, body.f) IN
        IF e.status # 0
        THEN _error(db, e.message, e.status)
        ELSE record_store(db, body.f)

\* a variant that ignores category_id when user_id is given
list_records_user_only(db, q) ==
    LET user_id == args_get_int(q.user_id)
        category_id == args_get_int(q.category_id)
    IN
    IF user_id.t = "none" /\ category_id.t = "none"
    THEN _error(db, "at least one of query params is required", 400)
    ELSE
        LET all == DictValues(db.records)
            items == IF user_id.t # "none"
                     THEN SelectSeq(all, LAMBDA r : PyEq(r.user_id, user_id))
                     ELSE SelectSeq(all,
                              LAMBDA r : PyEq(r.category_id, category_id))
        IN  Out(db, 200, [items |-> items, total |-> Len(items)])

list_records(db, q) ==
    LET user_id == args_get_int(q.user_id)
        category_id == args_get_int(q.category_id)
    IN
    IF user_id.t = "none" /\ category_id.t = "none"
    THEN _error(db, "at least one of query params is required", 400)
    ELSE
        LET all == DictValues(db.records)
            by_user == IF user_id.t # "none"
                       THEN SelectSeq(all, LAMBDA r : PyEq(r.user_id, user_id))
                       ELSE all
            items == IF category_id.t # "none"
                     THEN SelectSeq(by_user,
                              LAMBDA r : PyEq(r.category_id, category_id))
                     ELSE by_user
        IN  Out(db, 200, [items |-> items, total |-> Len(items)])

----------------------------------------------------------------------------
(* Requests *)

\* ids a client puts in a path (<int:...> matches non-negative integers)
PathIds == {1, 2}

\* a query parameter: absent, not an integer, or an integer
Absent == [kind |-> "absent", v |-> 0]
QText == [kind |-> "text", v |-> 0]
QInt(n) == [kind |-> "int", v |-> n]
Queries == {Absent, QText, QInt(1), QInt(2)}

\* request bodies: no JSON at all (or a falsy JSON value such as [] or 0),
\* a truthy JSON value that is no object such as [1], or an object
Dict(f) == [kind |-> "dict", f |-> f]
NoDict(kind, f) == [kind |-> kind, f |-> f]
NoDictKinds == {"none", "nondict"}

UserNames == {None, JInt(5), JS(<<>>), JS(<<"A">>)}
UserBodies ==
    {Dict([name |-> n]) : n \in UserNames}
        \cup {NoDict(k, [name |-> None]) : k \in NoDictKinds}

CategoryNames ==
    {None, JInt(5), JS(<<>>), JS(<<"A">>), JS(<<"a">>), JS(<<"B", "a">>)}
CategoryBodies ==
    {Dict([name |-> n]) : n \in CategoryNames}
        \cup {NoDict(k, [name |-> None]) : k \in NoDictKinds}

IdBodies ==
    {Dict([id |-> i]) : i \in {None, JS(<<"1">>), JTrue, JInt(2)}}
        \cup {NoDict(k, [id |-> None]) : k \in NoDictKinds}
DeleteCategoryQueries == {Absent, QText, QInt(1)}

Rec(u, c, a, t) ==
    [user_id |-> u, category_id |-> c, amount |-> a, created_at |-> t]
Stamp == JS(<<"2025-10-13", "T10:00:00", "Z">>)
RecordBodies ==
    \* integer ids, with and without created_at
    {Dict(Rec(JInt(u), JInt(c), JInt(5), None)) : u \in 1..2, c \in 1..2}
        \cup {Dict(Rec(JInt(1), JInt(1), JInt(5), t)) :
                t \in {Stamp, JS(<<"Z">>), JInt(5)}}
    \* an amount that is a float, a boolean, an integer too large for a float
        \cup {Dict(Rec(JInt(1), JInt(1), a, None)) : a \in {JFloat(50), JTrue, JBig}}
    \* each field a string, a boolean or as it should be
        \cup {Dict(Rec(u, c, a, None)) :
                u \in {JS(<<"1">>), JTrue, JInt(1)},
                c \in {JS(<<"1">>), JTrue, JInt(1)},
                a \in {JS(<<"5">>), JInt(5)}}
    \* a field missing or null, an id a float
        \cup {Dict(Rec(None, JInt(1), JInt(5), None)),
              Dict(Rec(JInt(1), None, JInt(5), None)),
              Dict(Rec(JInt(1), JInt(1), None, None)),
              Dict(Rec(JFloat(10), JInt(1), JInt(5), None)),
              Dict(Rec(JInt(1), JFloat(10), JInt(5), None))}
        \cup {NoDict(k, Rec(None, None, None, None)) : k \in NoDictKinds}

Kind(op) ==
    CASE op = "create_user" -> "user"
      [] op = "create_category" -> "category"
      [] op = "create_record" -> "record"

Total(counters) == counters["user"] + counters["category"] + counters["record"]

\* handle one request to completion
Handle(op, input, out) ==
    /\ Total(out.db.counters) <= MaxOps
    /\ _users' = out.db.users
    /\ _categories' = out.db.categories
    /\ _records' = out.db.records
    /\ _counters' = out.db.counters
    /\ req' = [op |-> op, in |-> input]
    /\ resp' = [status |-> out.status, body |-> out.body]
    /\ issued' = IF out.status = 201
                 THEN [issued EXCEPT ![Kind(op)] = @ \cup {out.body.id}]
                 ELSE issued
    /\ UNCHANGED <<pc, loc, deleted>>

Health == Handle("health", <<>>, health(DB))
Index == Handle("index", <<>>, index(DB))
GetUser == \E id \in PathIds : Handle("get_user", id, get_user(DB, id))
DeleteUser == \E id \in PathIds : Handle("delete_user", id, delete_user(DB, id))
CreateUser == \E b \in UserBodies : Handle("create_user", b, create_user(DB, b))
ListUsers == Handle("list_users", <<>>, list_users(DB))
ListCategories == Handle("list_categories", <<>>, list_categories(DB))
CreateCategory ==
    \E b \in CategoryBodies : Handle("create_category", b, create_category(DB, b))
DeleteCategory ==
    \E q \in DeleteCategoryQueries, b \in IdBodies :
        Handle("delete_category", [q |-> q, body |-> b], delete_category(DB, q, b))
GetRecord == \E id \in PathIds : Handle("get_record", id, get_record(DB, id))
DeleteRecord ==
    \E id \in PathIds : Handle("delete_record", id, delete_record(DB, id))
CreateRecord ==
    \E b \in RecordBodies : Handle("create_record", b, create_record(DB, b))
ListRecords ==
    \E u \in Queries, c \in Queries :
        Handle("list_records", [user_id |-> u, category_id |-> c],
               list_records(DB, [user_id |-> u, category_id |-> c]))

Threads == 1 .. NumThreads
Idle == [op |-> "", tmp |-> 0, id |-> 0, snap |-> {}, status |-> 0]

Init ==
    /\ _users = <<>>
    /\ _categories = <<>>
    /\ _records = <<>>
    /\ _counters = [user |-> 0, category |-> 0, record |-> 0]
    /\ req = [op |-> "start", in |-> <<>>]
    /\ resp = [status |-> 0, body |-> <<>>]
    /\ issued = [user |-> {}, category |-> {}, record |-> {}]
    /\ pc = [t \in Threads |-> "idle"]
    /\ loc = [t \in Threads |-> Idle]
    /\ deleted = FALSE

Next ==
    \/ Health
    \/ Index
    \/ GetUser
    \/ DeleteUser
    \/ CreateUser
    \/ ListUsers
    \/ ListCategories
    \/ CreateCategory
    \/ DeleteCategory
    \/ GetRecord
    \/ DeleteRecord
    \/ CreateRecord
    \/ ListRecords

Spec == Init /\ [][Next]_vars

-----------------------------------------------------------------------------
(* Handlers served by several threads at once.  The module keeps no lock, so
   the statements of two handlers interleave: a thread runs one request at a
   time, statement by statement, on the shared tables and counters. *)

Creates == {"create_user", "create_category", "create_record"}
Deletes == {"delete_user", "delete_category"}

\* the requests the threads send: the first user, category and record, and
\* the deletion of the first user and of the first category
ThreadRecord == Rec(JInt(1), JInt(1), JInt(5), None)
ThreadName(op) == IF op = "create_user" THEN <<"A">> ELSE <<"a">>

\* the first statement of each handler that reads the shared state
FirstStatement(op) ==
    CASE op = "create_user" -> "counter_read"
      [] op = "create_category" -> "check_name"
      [] op = "create_record" -> "check_user"
      [] op \in Deletes -> "check_exists"

\* the threads that are in a create and have not stored the counter yet
Allocating == {t \in Threads : pc[t] \in {"check_name", "check_user",
                  "check_category", "counter_read", "counter_write"}}

Goto(t, label) == pc' = [pc EXCEPT ![t] = label]
Answer(t, status) ==
    /\ pc' = [pc EXCEPT ![t] = "done"]
    /\ loc' = [loc EXCEPT ![t].status = status]

Begin(t) ==
    /\ pc[t] = "idle"
    /\ \E op \in Creates \cup Deletes :
        /\ op \in Creates => Total(_counters) + Cardinality(Allocating) < MaxOps
        /\ loc' = [loc EXCEPT ![t] = [Idle EXCEPT !.op = op]]
        /\ Goto(t, FirstStatement(op))
    /\ UNCHANGED <<_users, _categories, _records, _counters, req, resp,
                   issued, deleted>>

\* create_category: if any(... name.lower() ...) return 409
CheckName(t) ==
    /\ pc[t] = "check_name"
    /\ IF name_exists(_categories, ThreadName(loc[t].op))
       THEN Answer(t, 409)
       ELSE Goto(t, "counter_read") /\ UNCHANGED loc
    /\ UNCHANGED <<_users, _categories, _records, _counters, req, resp,
                   issued, deleted>>

\* create_record: if user_id not in _users return 404
CheckUser(t) ==
    /\ pc[t] = "check_user"
    /\ IF ~DictHas(_users, ThreadRecord.user_id)
       THEN Answer(t, 404)
       ELSE Goto(t, "check_category") /\ UNCHANGED loc
    /\ UNCHANGED <<_users, _categories, _records, _counters, req, resp,
                   issued, deleted>>

\* create_record: if category_id not in _categories return 404
CheckCategory(t) ==
    /\ pc[t] = "check_category"
    /\ IF ~DictHas(_categories, ThreadRecord.category_id)
       THEN Answer(t, 404)
       ELSE Goto(t, "counter_read") /\ UNCHANGED loc
    /\ UNCHANGED <<_users, _categories, _records, _counters, req, resp,
                   issued, deleted>>

\* _next_id: _counters[kind] += 1, the load of the old value
ReadCounter(t) ==
    /\ pc[t] = "counter_read"
    /\ loc' = [loc EXCEPT ![t].tmp = _counters[Kind(loc[t].op)]]
    /\ Goto(t, "counter_write")
    /\ UNCHANGED <<_users, _categories, _records, _counters, req, resp,
                   issued, deleted>>

\* _next_id: _counters[kind] += 1, the store of the old value plus one
WriteCounter(t) ==
    /\ pc[t] = "counter_write"
    /\ _counters' = [_counters EXCEPT ![Kind(loc[t].op)] = loc[t].tmp + 1]
    /\ Goto(t, "counter_return")
    /\ UNCHANGED <<_users, _categories, _records, loc, req, resp,
                   issued, deleted>>

\* _next_id: return _counters[kind]
ReturnId(t) ==
    /\ pc[t] = "counter_return"
    /\ loc' = [loc EXCEPT ![t].id = _counters[Kind(loc[t].op)]]
    /\ Goto(t, "insert")
    /\ UNCHANGED <<_users, _categories, _records, _counters, req, resp,
                   issued, deleted>>

\* _users[uid] = user, _categories[cid] = category, _records[rid] = rec
Insert(t) ==
    /\ pc[t] = "insert"
    /\ LET id == loc[t].id
           named == [id |-> id, name |-> ThreadName(loc[t].op)]
           rec == [id |-> id, user_id |-> ThreadRecord.user_id,
                   category_id |-> ThreadRecord.category_id,
                   created_at |-> utcnow_isoformat \o <<"Z">>,
                   amount |-> float(ThreadRecord.amount)]
       IN  CASE loc[t].op = "create_user" ->
                  /\ _users' = DictSet(_users, id, named)
                  /\ UNCHANGED <<_categories, _records>>
             [] loc[t].op = "create_category" ->
                  /\ _categories' = DictSet(_categories, id, named)
                  /\ UNCHANGED <<_users, _records>>
             [] loc[t].op = "create_record" ->
                  /\ _records' = DictSet(_records, id, rec)
                  /\ UNCHANGED <<_users, _categories>>
    /\ Answer(t, 201)
    /\ UNCHANGED <<_counters, req, resp, issued, deleted>>

\* delete_user, delete_category: if id not in table return 404
CheckExists(t) ==
    /\ pc[t] = "check_exists"
    /\ IF ~DictHas(IF loc[t].op = "delete_user" THEN _users ELSE _categories,
                   JInt(1))
       THEN Answer(t, 404)
       ELSE Goto(t, "snapshot") /\ UNCHANGED loc
    /\ UNCHANGED <<_users, _categories, _records, _counters, req, resp,
                   issued, deleted>>

\* to_delete = [rid for rid, r in _records.items() if r[...] == id]
Snapshot(t) ==
    /\ pc[t] = "snapshot"
    /\ loc' = [loc EXCEPT ![t].snap =
            {_records[i].k : i \in {j \in DOMAIN _records :
                PyEq(IF loc[t].op = "delete_user"
                     THEN _records[j].v.user_id
                     ELSE _records[j].v.category_id, JInt(1))}}]
    /\ Goto(t, "pop_records")
    /\ UNCHANGED <<_users, _categories, _records, _counters, req, resp,
                   issued, deleted>>

\* for rid in to_delete: _records.pop(rid, None)
PopRecords(t) ==
    /\ pc[t] = "pop_records"
    /\ _records' = SelectSeq(_records, LAMBDA e : e.k \notin loc[t].snap)
    /\ Goto(t, "pop_entity")
    /\ UNCHANGED <<_users, _categories, _counters, loc, req, resp,
                   issued, deleted>>

\* _users.pop(user_id, None), _categories.pop(cat_id, None)
PopEntity(t) ==
    /\ pc[t] = "pop_entity"
    /\ IF loc[t].op = "delete_user"
       THEN _users' = DictPop(_users, JInt(1)) /\ UNCHANGED _categories
       ELSE _categories' = DictPop(_categories, JInt(1)) /\ UNCHANGED _users
    /\ deleted' = TRUE
    /\ Answer(t, 200)
    /\ UNCHANGED <<_records, _counters, req, resp, issued>>

\* the response is sent and the thread takes the next request
Finish(t) ==
    /\ pc[t] = "done"
    /\ pc' = [pc EXCEPT ![t] = "idle"]
    /\ loc' = [loc EXCEPT ![t] = Idle]
    /\ UNCHANGED <<_users, _categories, _records, _counters, req, resp,
                   issued, deleted>>

NextC ==
    \E t \in Threads :
        \/ Begin(t)
        \/ CheckName(t)
        \/ CheckUser(t)
        \/ CheckCategory(t)
        \/ ReadCounter(t)
        \/ WriteCounter(t)
        \/ ReturnId(t)
        \/ Insert(t)
        \/ CheckExists(t)
        \/ Snapshot(t)
        \/ PopRecords(t)
        \/ PopEntity(t)
        \/ Finish(t)

SpecC == Init /\ [][NextC]_vars

----------------------------------------------------------------------------
(* Properties *)

\* the request handled by the step into the current state
Op(op) == req.op = op

\* the body of the last request is a JSON object, or read as {}
ObjectBody(body) == body.kind # "nondict"

\* a stored id field has the same numeric value as the integer n
SameId(x, n) == x.t \in {"int", "bool", "float"} /\ Num(x) = 10 * n

\* the ids of the entities stored in a table are pairwise different
UniqueIds(d) == \A i, j \in DOMAIN d : d[i].v.id = d[j].v.id => i = j

\* C1: a successful create returns an id that no earlier successful create
\* of that kind returned, whether or not that entity still exists, and no
\* table holds two entities with one id.
C1_IdsNeverReused ==
    [][/\ resp'.status = 201 => resp'.body.id \notin issued[Kind(req'.op)]
       /\ UniqueIds(_users') /\ UniqueIds(_categories') /\ UniqueIds(_records')]_vars

\* a user is created after user 1 was created and deleted
C1_Witness ==
    /\ Op("create_user") /\ resp.status = 201
    /\ 1 \in issued["user"] /\ ~DictHas(_users, JInt(1))
    /\ resp.body.id = 2

C3_ErrorsLeaveStateUnchanged ==
    [][resp'.status \in {400, 404, 409} =>
            /\ _users' = _users
            /\ _categories' = _categories
            /\ _records' = _records
            /\ _counters' = _counters]_vars

\* a create_record that passed the type checks was refused for its
\* created_at, the last check, with a user, a category and a record stored
C3_Witness ==
    /\ Op("create_record") /\ resp.status = 400
    /\ req.in.kind = "dict" /\ req.in.f.created_at.t # "none"
    /\ DictHas(_users, req.in.f.user_id)
    /\ DictHas(_categories, req.in.f.category_id)
    /\ Len(_records) > 0

\* a create_record body with integer ids and a number as amount
WellTyped(body) ==
    /\ body.kind = "dict"
    /\ body.f.user_id.t = "int"
    /\ body.f.category_id.t = "int"
    /\ body.f.amount.t \in {"int", "float"}

\* C4: a well-typed create_record naming an absent user or category is
\* answered 404, stores nothing and leaves the record counter; a successful
\* create_record returns the id after the counter's value.
C4_MissingReferenceAllocatesNoId ==
    [][req'.op = "create_record" =>
            /\ (/\ WellTyped(req'.in)
                /\ \/ ~\E i \in DOMAIN _users :
                            _users[i].k = req'.in.f.user_id.v
                   \/ ~\E i \in DOMAIN _categories :
                            _categories[i].k = req'.in.f.category_id.v)
                => /\ resp'.status = 404
                   /\ _records' = _records
                   /\ _counters' = _counters
            /\ resp'.status = 201 =>
                   resp'.body.id = _counters["record"] + 1]_vars

\* a create_record was refused 404 after a record was created
C4_Witness ==
    /\ Op("create_record") /\ resp.status = 404 /\ WellTyped(req.in)
    /\ issued["record"] # {}

\* C5: delete_user of a stored user removes the user and every record of
\* that user, so that get_user and get_record of each then answer 404, and
\* deleted_records is the number of records the user had.
C5_DeleteUserCascades ==
    [][(req'.op = "delete_user" /\ \E i \in DOMAIN _users : _users[i].k = req'.in) =>
            LET id == req'.in
                mine == {i \in DOMAIN _records : SameId(_records[i].v.user_id, id)}
            IN  /\ resp'.status = 200
                /\ get_user(DB', id).status = 404
                /\ \A i \in mine : get_record(DB', _records[i].k).status = 404
                /\ resp'.body.deleted_records = Cardinality(mine)]_vars

\* a user with two records was deleted
C5_Witness ==
    /\ Op("delete_user") /\ resp.status = 200
    /\ resp.body.deleted_records = 2
    /\ issued["record"] = {1, 2} /\ _records = <<>>

\* the id delete_category is asked to delete: the query's when it is an
\* integer, else the body's
AskedId(in) ==
    IF in.q.kind = "int" THEN JInt(in.q.v)
    ELSE IF in.body.kind = "dict" THEN in.body.f.id
    ELSE None

\* C6: delete_category with the id of a stored category removes the
\* category and every record of that category, and deleted_records is the
\* number of records the category had.
C6_DeleteCategoryCascades ==
    [][(/\ req'.op = "delete_category"
        /\ AskedId(req'.in).t = "int"
        /\ \E i \in DOMAIN _categories : _categories[i].k = AskedId(req'.in).v) =>
            LET id == AskedId(req'.in).v
                mine == {i \in DOMAIN _records :
                            SameId(_records[i].v.category_id, id)}
            IN  /\ resp'.status = 200
                /\ ~\E i \in DOMAIN _categories' : _categories'[i].k = id
                /\ \A i \in mine :
                       ~\E j \in DOMAIN _records' : _records'[j].k = _records[i].k
                /\ \A j \in DOMAIN _records' :
                       ~SameId(_records'[j].v.category_id, id)
                /\ resp'.body.deleted_records = Cardinality(mine)]_vars

\* a category with two records was deleted
C6_Witness ==
    /\ Op("delete_category") /\ resp.status = 200
    /\ resp.body.deleted_records = 2
    /\ issued["record"] = {1, 2} /\ _records = <<>>

\* C7: create_category with a non-empty string as name answers 409 exactly
\* when a stored category's name equals it after lowercasing both; otherwise
\* it answers 201 with a new id and stores the category under that id with
\* the name as supplied.
C7_CreateCategoryConflictOrStore ==
    [][(/\ req'.op = "create_category"
        /\ ObjectBody(req'.in)
        /\ req'.in.f.name.t = "str" /\ req'.in.f.name.s # <<>>) =>
            LET name == req'.in.f.name.s
                taken == \E i \in DOMAIN _categories :
                            lower(_categories[i].v.name) = lower(name)
            IN  /\ resp'.status = 409 <=> taken
                /\ ~taken =>
                    /\ resp'.status = 201
                    /\ resp'.body.id \notin issued["category"]
                    /\ resp'.body.name = name
                    /\ \E i \in DOMAIN _categories' :
                          /\ _categories'[i].k = resp'.body.id
                          /\ _categories'[i].v = resp'.body]_vars

\* a category with capitals in its name was stored beside another
C7_Witness ==
    /\ Op("create_category") /\ resp.status = 201
    /\ req.in.f.name.s = <<"B", "a">>
    /\ Len(_categories) = 2

\* what create_user does when it accepts a name
UserStored(in) ==
    /\ resp'.status = 201
    /\ resp'.body.id \notin issued["user"]
    /\ resp'.body.name = in.f.name.s
    /\ \E i \in DOMAIN _users' :
          /\ _users'[i].k = resp'.body.id
          /\ _users'[i].v = resp'.body

\* what create_user does when it refuses a name
UserRefused ==
    /\ resp'.status = 400
    /\ _users' = _users
    /\ _counters' = _counters

C9_IllTypedRecordRefused ==
    [][(/\ req'.op = "create_record"
        /\ ObjectBody(req'.in)
        /\ \/ req'.in.f.user_id.t \notin {"int", "bigint"}
           \/ req'.in.f.category_id.t \notin {"int", "bigint"}
           \/ req'.in.f.amount.t \notin {"int", "bigint", "float"}) =>
            /\ resp'.status = 400
            /\ _records' = _records]_vars

\* a query parameter that args.get(..., type=int) reads as an integer
Supplied(q) == q.kind = "int"

\* the stored records a list_records request asks for
Wanted(in) ==
    {i \in DOMAIN _records :
        /\ Supplied(in.user_id) => SameId(_records[i].v.user_id, in.user_id.v)
        /\ Supplied(in.category_id) =>
               SameId(_records[i].v.category_id, in.category_id.v)}

\* C10: list_records answers 400 when neither filter is an integer; else
\* its items are the stored records that match every filter supplied, each
\* once, and total is their number.
C10_ListRecordsFilters ==
    Op("list_records") =>
        IF ~Supplied(req.in.user_id) /\ ~Supplied(req.in.category_id)
        THEN resp.status = 400
        ELSE /\ resp.status = 200
             /\ {resp.body.items[j] : j \in DOMAIN resp.body.items}
                    = {_records[i].v : i \in Wanted(req.in)}
             /\ Len(resp.body.items) = Cardinality(Wanted(req.in))
             /\ resp.body.total = Len(resp.body.items)

\* both filters were given, and a stored record of the user asked for is
\* left out for its category
C10_Witness ==
    /\ Op("list_records") /\ resp.status = 200
    /\ Supplied(req.in.user_id) /\ Supplied(req.in.category_id)
    /\ resp.body.total < Len(_records)
    /\ \E i \in DOMAIN _records :
          /\ SameId(_records[i].v.user_id, req.in.user_id.v)
          /\ ~SameId(_records[i].v.category_id, req.in.category_id.v)

\* the keys of a table
Keys(d) == {d[i].k : i \in DOMAIN d}

\* C11: get_user, delete_user, get_record, delete_record and
\* delete_category answer 404 for an id that is not in the table, also an
\* id issued earlier and deleted since.
C11_AbsentIdIsNotFound ==
    [][/\ (req'.op \in {"get_user", "delete_user"} /\ req'.in \notin Keys(_users))
            => resp'.status = 404
       /\ (req'.op \in {"get_record", "delete_record"}
                /\ req'.in \notin Keys(_records))
            => resp'.status = 404
       /\ (/\ req'.op = "delete_category"
           /\ AskedId(req'.in).t = "int"
           /\ AskedId(req'.in).v \notin Keys(_categories))
            => resp'.status = 404]_vars

\* a record that was issued and deleted, by a cascade or directly, was
\* asked to be deleted again
C11_Witness ==
    /\ Op("delete_record") /\ resp.status = 404
    /\ req.in \in issued["record"]

\* C12: a successful create_user or create_record stores what it returns,
\* with the name, the user_id, the category_id and the created_at string as
\* supplied; no request but a delete changes a stored user or record; and
\* get_user or get_record of a stored id returns the stored object.
C12_ReadYourWrite ==
    [][/\ (req'.op = "create_user" /\ resp'.status = 201) =>
            /\ resp'.body.name = req'.in.f.name.s
            /\ get_user(DB', resp'.body.id).status = 200
            /\ get_user(DB', resp'.body.id).body = resp'.body
       /\ (req'.op = "create_record" /\ resp'.status = 201) =>
            /\ resp'.body.user_id = req'.in.f.user_id
            /\ resp'.body.category_id = req'.in.f.category_id
            /\ req'.in.f.created_at.t = "str" =>
                   resp'.body.created_at = req'.in.f.created_at.s
            /\ get_record(DB', resp'.body.id).status = 200
            /\ get_record(DB', resp'.body.id).body = resp'.body
       /\ req'.op # "delete_user" =>
            SubSeq(_users', 1, Len(_users)) = _users
       /\ req'.op \notin {"delete_user", "delete_category", "delete_record"} =>
            SubSeq(_records', 1, Len(_records)) = _records
       /\ (req'.op = "get_user" /\ resp'.status = 200) =>
            resp'.body = get_user(DB, req'.in).body
       /\ (req'.op = "get_record" /\ resp'.status = 200) =>
            resp'.body = get_record(DB, req'.in).body]_vars

\* a record created with a created_at of its own was fetched
C12_Witness ==
    /\ Op("get_record") /\ resp.status = 200
    /\ resp.body.created_at = Stamp.s

\* C13 as claimed: delete_category deletes the category of the query's id
\* when that is an integer, whatever the body holds; else that of the
\* body's id when that is an integer; and answers 400, deleting nothing,
\* when neither is an integer (a boolean is none).
C13_DeleteCategoryIdSource ==
    [][(req'.op = "delete_category" /\ ObjectBody(req'.in.body)) =>
            LET q == req'.in.q
                b == req'.in.body.f.id
                id == IF q.kind = "int" THEN q.v ELSE b.v
            IN  IF q.kind = "int" \/ b.t = "int"
                THEN IF id \in Keys(_categories)
                     THEN /\ resp'.status = 200
                          /\ Keys(_categories') = Keys(_categories) \ {id}
                     ELSE resp'.status = 404
                ELSE /\ resp'.status = 400
                     /\ _categories' = _categories
                     /\ _records' = _records]_vars

\* C16: with requests handled one at a time, every stored record's user_id
\* is the id of a stored user and its category_id the id of a stored
\* category.
C16_ReferentialIntegrity ==
    \A i \in DOMAIN _records :
        /\ \E k \in Keys(_users) : SameId(_records[i].v.user_id, k)
        /\ \E k \in Keys(_categories) : SameId(_records[i].v.category_id, k)

\* a user with a record was deleted while another category stays stored
C16_Witness ==
    /\ Op("delete_user") /\ resp.status = 200
    /\ resp.body.deleted_records = 1
    /\ Len(_categories) = 2

\* C17 as claimed: for each kind the counter is the number of successful
\* creates, which returned the ids 1, 2, ... in turn; each key is the id
\* field of its entity and lies in 1 .. counter.
C17_SequentialIds ==
    /\ \A kind \in {"user", "category", "record"} :
          /\ _counters[kind] = Cardinality(issued[kind])
          /\ issued[kind] = 1 .. _counters[kind]
    /\ \A i \in DOMAIN _users :
          _users[i].k = _users[i].v.id /\ _users[i].k \in 1 .. _counters["user"]
    /\ \A i \in DOMAIN _categories :
          /\ _categories[i].k = _categories[i].v.id
          /\ _categories[i].k \in 1 .. _counters["category"]
    /\ \A i \in DOMAIN _records :
          /\ _records[i].k = _records[i].v.id
          /\ _records[i].k \in 1 .. _counters["record"]

\* C18: a successful delete_user, delete_category or delete_record removes
\* the entity and its records and leaves every other user, category and
\* record, and the counters, as they were.
C18_DeleteFrame ==
    [][resp'.status = 200 =>
        /\ req'.op = "delete_user" =>
            /\ _categories' = _categories
            /\ _counters' = _counters
            /\ _users' = SelectSeq(_users, LAMBDA e : e.k # req'.in)
            /\ _records' = SelectSeq(_records,
                   LAMBDA e : ~SameId(e.v.user_id, req'.in))
        /\ req'.op = "delete_category" =>
            /\ _users' = _users
            /\ _counters' = _counters
            /\ _categories' = SelectSeq(_categories,
                   LAMBDA e : e.k # AskedId(req'.in).v)
            /\ _records' = SelectSeq(_records,
                   LAMBDA e : ~SameId(e.v.category_id, AskedId(req'.in).v))
        /\ req'.op = "delete_record" =>
            /\ _users' = _users
            /\ _categories' = _categories
            /\ _counters' = _counters
            /\ _records' = SelectSeq(_records, LAMBDA e : e.k # req'.in)]_vars

\* one of two records was deleted and the other stays
C18_Witness ==
    /\ Op("delete_record") /\ resp.status = 200
    /\ Len(_records) = 1


-----------------------------------------------------------------------------
(* Concurrent handlers *)

Finished(t) == pc[t] = "done"
Table(op) ==
    CASE op = "create_user" -> _users
      [] op = "create_category" -> _categories
      [] op = "create_record" -> _records

\* C14: two create requests of the same kind that ran on different threads
\* and both answered 201 hold distinct ids, and, as long as no delete has
\* run, both created entities are in the table.
C14_NoLostUpdates ==
    \A t, u \in Threads :
        (/\ t # u
         /\ Finished(t) /\ Finished(u)
         /\ loc[t].op \in Creates /\ loc[u].op = loc[t].op
         /\ loc[t].status = 201 /\ loc[u].status = 201)
        => /\ loc[t].id # loc[u].id
           /\ ~deleted => {loc[t].id, loc[u].id} \subseteq Keys(Table(loc[t].op))

\* C15: once no handler is in progress, no stored record names a user or a
\* category that is absent from its table.
C15_CascadeSnapshot ==
    (\A t \in Threads : pc[t] \in {"idle", "done"})
    => \A i \in DOMAIN _records :
           /\ DictHas(_users, _records[i].v.user_id)
           /\ DictHas(_categories, _records[i].v.category_id)



-----------------------------------------------------------------------------
(* Deleted category names *)

\* the create_category requests whose body is an object with a string name
NamedBodies ==
    {b \in CategoryBodies : ObjectBody(b) /\ isinstance_str(b.f.name)}

\* the create answered 201 with an id other than the given one
CreatedAs(out, id) == out.status = 201 /\ ~SameId(id, out.body.id)

\* C19: when delete_category answers 200 for the category named N, a
\* create_category of any name equal to N ignoring case, sent next, answers
\* 201 with an id that is not the deleted one; and every create_category
\* that answers 201 returns an id never issued before, so none of a deleted
\* category, that no stored record carries as its category.
C19_DeletedNameAvailable ==
    [][IF req'.op = "delete_category" /\ resp'.status = 200
       THEN \A N \in {lower(DictGet(_categories, resp'.body.category_id).name)} :
                \A b \in NamedBodies :
                    lower(b.f.name.s) = N
                    => CreatedAs(create_category(DB', b),
                                 resp'.body.category_id)
       ELSE (req'.op = "create_category" /\ resp'.status = 201) =>
                /\ resp'.body.id \notin issued["category"]
                /\ \A i \in DOMAIN _records' :
                       ~SameId(_records'[i].v.category_id, resp'.body.id)]_vars

\* a category was created after category 1 and its record were deleted
C19_Witness ==
    /\ Op("create_category") /\ resp.status = 201
    /\ resp.body.id = 2
    /\ Keys(_categories) = {2}
    /\ issued["record"] = {1} /\ _records = <<>>
    /\ Len(_users) = 1


=============================================================================
